---- MODULE Spec2Model ----
(***************************************************************************)
(* A model of sntvm (src/src/main.rs): the Value type with its equality    *)
(* and hashing, the World (vars and generation maps), Branch::merge, and   *)
(* the executor execute_ast, which walks the AST and commits to the World. *)
(*                                                                         *)
(* HashMap<String, T> is a function whose DOMAIN is the set of keys        *)
(* present.  Option<T> is a sequence of length 0 (None) or 1 (Some).       *)
(* A String is the sequence of its byte codes.  A Vec is a sequence.  A    *)
(* HashSet is the sequence of its elements in its iteration order, which   *)
(* the program does not control.                                           *)
(***************************************************************************)
EXTENDS Integers, Sequences, FiniteSets, TLC

VARIABLES
    vars,        \* World.vars: name -> Value
    generation,  \* World.generation: name -> usize
    branches,    \* the registry execute_ast threads through: name -> Branch
    stack,       \* the Branch arms whose body is executing, innermost last:
                 \* each holds its local b (main.rs:422)
    node,        \* the ASTNode executed last
    prev,        \* vars, generation, branches and stack as they were before node
    steps,       \* number of ASTNodes executed
    trace,       \* the ASTNodes executed, in order (recorded when recording)
    recording,   \* whether trace is kept
    arg,         \* Branch::merge called directly: the branch it is given
    phase,       \* "exec" | "ready" | "done" | "values"
    va, vb,      \* two Values compared and hashed
    ha, hb       \* their hashes, once computed (Option<u64>)

all_vars == <<vars, generation, branches, stack, node, prev, steps, trace,
              recording, arg, phase, va, vb, ha, hb>>

-----------------------------------------------------------------------------
(* Bounds of the model *)

\* ASTNodes executed in a run of Spec
MaxSteps == 7
\* ASTNodes executed in a run of SpecProg, which records them
MaxProgLen == 7
\* Branch records in the tree handed to Branch::merge in SpecMerge
MaxBranchNodes == 2
\* Value records (atoms and collections, nested ones counted) in a Value
\* compared and hashed in SpecValue
MaxValueSize == 3
\* width of the hasher's output, standing for u64
HashBits == 16
\* largest generation of a World or a Branch handed to Branch::merge in SpecMerge
MaxGen == 1

Names == {"x", "y"}

-----------------------------------------------------------------------------
(* Option, HashMap *)

None == <<>>
Some(v) == <<v>>

EmptyMap == [k \in {} |-> 0]

\* HashMap::insert
MapInsert(m, k, v) == [n \in (DOMAIN m) \cup {k} |-> IF n = k THEN v ELSE m[n]]

\* HashMap::remove
MapRemove(m, k) == [n \in (DOMAIN m) \ {k} |-> m[n]]

\* HashMap::get
MapGet(m, k) == IF k \in DOMAIN m THEN Some(m[k]) ELSE None

\* the orders in which an iterator may visit the keys of a HashMap
KeyOrders(m) ==
    {o \in [1..Cardinality(DOMAIN m) -> DOMAIN m] :
        \A i, j \in 1..Cardinality(DOMAIN m) : o[i] = o[j] => i = j}

-----------------------------------------------------------------------------
(* Value (main.rs:27-35); Float is left out *)

\* every variant carries every field, so that any two Values compare
Blank == [tag |-> "", int |-> 0, bool |-> FALSE, str |-> <<>>, elems |-> <<>>]
VInt(i)  == [Blank EXCEPT !.tag = "Int",  !.int = i]
VBool(b) == [Blank EXCEPT !.tag = "Bool", !.bool = b]
VStr(s)  == [Blank EXCEPT !.tag = "Str",  !.str = s]
VList(l) == [Blank EXCEPT !.tag = "List", !.elems = l]
VSet(s)  == [Blank EXCEPT !.tag = "Set",  !.elems = s]

RECURSIVE ValueEq(_, _), SetContains(_, _)
\* #[derive(PartialEq)] on Value: same variant and equal payloads; Vec compares
\* elementwise in order, HashSet compares by length and membership
ValueEq(a, b) ==
    /\ a.tag = b.tag
    /\ CASE a.tag = "Int" -> a.int = b.int
         [] a.tag = "Bool" -> a.bool = b.bool
         [] a.tag = "Str" -> a.str = b.str
         [] a.tag = "List" ->
              /\ Len(a.elems) = Len(b.elems)
              /\ \A i \in 1..Len(a.elems) : ValueEq(a.elems[i], b.elems[i])
         [] a.tag = "Set" ->
              /\ Len(a.elems) = Len(b.elems)
              /\ \A i \in 1..Len(a.elems) : SetContains(b.elems, a.elems[i])

\* HashSet::contains
SetContains(s, e) == \E i \in 1..Len(s) : ValueEq(s[i], e)

\* s with e put at place p of the iteration order
InsertAt(s, p, e) == SubSeq(s, 1, p - 1) \o <<e>> \o SubSeq(s, p, Len(s))

-----------------------------------------------------------------------------
(* impl Hash for Value (main.rs:37-60).  A Hasher is the sequence of the  *)
(* bytes written to it; finish() is a function of that sequence.          *)

RECURSIVE LEBytes(_, _)
\* the count low bytes of n, lowest first (two's complement for n < 0)
LEBytes(n, count) ==
    IF count = 0 THEN <<>> ELSE <<n % 256>> \o LEBytes(n \div 256, count - 1)

RECURSIVE Xor(_, _)
\* a ^ b on naturals
Xor(a, b) ==
    IF a = 0 THEN b
    ELSE IF b = 0 THEN a
    ELSE ((a + b) % 2) + 2 * Xor(a \div 2, b \div 2)

RECURSIVE Finish(_)
\* DefaultHasher::new() fed bytes, then finish(): SipHash is stood for by a
\* polynomial mix of the bytes, HashBits wide
Finish(bytes) ==
    IF bytes = <<>> THEN 7
    ELSE (Finish(SubSeq(bytes, 1, Len(bytes) - 1)) * 31 + bytes[Len(bytes)] + 1)
             % (2 ^ HashBits)

\* a combination of the element hashes that depends on their order
Combine_Ordered(acc, h) == (acc * 31 + h) % (2 ^ HashBits)

\* main.rs:54, acc ^= h.finish()
Combine(acc, h) == Xor(acc, h)

RECURSIVE Feed(_), FeedAll(_), SetAcc(_)
\* the bytes Value::hash writes to its Hasher
Feed(a) ==
    CASE a.tag = "Int" -> LEBytes(a.int, 4)
      [] a.tag = "Bool" -> <<IF a.bool THEN 1 ELSE 0>>
      [] a.tag = "Str" -> a.str \o <<255>>
      [] a.tag = "List" -> FeedAll(a.elems)
      [] a.tag = "Set" -> LEBytes(SetAcc(a.elems), 8)

\* main.rs:45-47: every element of the Vec written in order
FeedAll(elems) ==
    IF elems = <<>> THEN <<>> ELSE Feed(Head(elems)) \o FeedAll(Tail(elems))

\* main.rs:50-55: acc after the loop over the set in its iteration order
SetAcc(elems) ==
    IF elems = <<>> THEN 0
    ELSE Combine(SetAcc(SubSeq(elems, 1, Len(elems) - 1)),
                 Finish(Feed(elems[Len(elems)])))

\* the hash of a Value: a fresh DefaultHasher, a.hash(&mut h), h.finish()
Hash(a) == Finish(Feed(a))

-----------------------------------------------------------------------------
(* World (main.rs:62-82) *)

WorldNew == [vars |-> EmptyMap, generation |-> EmptyMap]

get_gen(w, var) == IF var \in DOMAIN w.generation THEN w.generation[var] ELSE 0

\* inc_gen with the entry created at 1 before the increment
inc_gen_FromOne(w, var) ==
    [w EXCEPT !.generation =
        MapInsert(w.generation, var,
                  IF var \in DOMAIN w.generation THEN w.generation[var] + 1 ELSE 2)]

inc_gen(w, var) ==
    [w EXCEPT !.generation = MapInsert(w.generation, var, get_gen(w, var) + 1)]

-----------------------------------------------------------------------------
(* Branch (main.rs:84-114) *)

BranchNew(variable, delta, gen) ==
    [variable |-> variable, delta |-> delta, generation |-> gen, nested |-> <<>>]

\* main.rs:103
IsStale(b, w) == get_gen(w, b.variable) # b.generation

\* main.rs:106-108
ApplyDelta(b, w) ==
    IF b.delta # None
    THEN [w EXCEPT !.vars = MapInsert(w.vars, b.variable, b.delta[1])]
    ELSE w

RECURSIVE merge(_, _), MergeNested(_, _)

\* merge with the stale check guarding only the branch's own commit
merge_NestedWhenStale(b, w) ==
    IF IsStale(b, w)
    THEN MergeNested(b.nested, w)
    ELSE MergeNested(b.nested, inc_gen(ApplyDelta(b, w), b.variable))

\* Branch::merge: the World after b.merge(world)
merge(b, w) ==
    IF IsStale(b, w)
    THEN w
    ELSE MergeNested(b.nested, inc_gen(ApplyDelta(b, w), b.variable))

\* main.rs:110-112, the loop over self.nested
MergeNested(nested, w) ==
    IF nested = <<>> THEN w
    ELSE MergeNested(Tail(nested), merge(Head(nested), w))

-----------------------------------------------------------------------------
(* ASTNode (main.rs:124-152) as executed: a Branch node is its entry *)
(* (BranchBegin) and the end of its body (BranchEnd)                  *)

Node(op, variable, value) == [op |-> op, variable |-> variable, value |-> value]

Start == Node("Start", "", None)

World == [vars |-> vars, generation |-> generation]

Snapshot ==
    [vars |-> vars, generation |-> generation, branches |-> branches, stack |-> stack]

\* what every arm does to the bookkeeping of the run
Executed(n) ==
    /\ phase = "exec"
    /\ steps < (IF recording THEN MaxProgLen ELSE MaxSteps)
    /\ steps' = steps + 1
    /\ node' = n
    /\ prev' = Snapshot
    /\ trace' = IF recording THEN Append(trace, n) ELSE trace
    /\ UNCHANGED <<recording, arg, phase, va, vb, ha, hb>>

\* Let that stages the value in the delta of the open branch on the same
\* variable instead of writing the World
ExecLet_Staged(name, value) ==
    /\ Executed(Node("Let", name, Some(value)))
    /\ IF stack # <<>> /\ stack[Len(stack)].variable = name
       THEN /\ stack' = [stack EXCEPT ![Len(stack)].delta = Some(value)]
            /\ UNCHANGED vars
       ELSE /\ vars' = MapInsert(vars, name, value)
            /\ UNCHANGED stack
    /\ UNCHANGED <<generation, branches>>

\* main.rs:417-419
ExecLet(name, value) ==
    /\ Executed(Node("Let", name, Some(value)))
    /\ vars' = MapInsert(vars, name, value)
    /\ UNCHANGED <<generation, branches, stack>>

\* Branch entry that advances the generation of its variable once the
\* snapshot is taken
ExecBranchBegin_IncGen(variable) ==
    /\ Executed(Node("BranchBegin", variable, None))
    /\ stack' = Append(stack, BranchNew(variable, None, get_gen(World, variable)))
    /\ generation' = inc_gen(World, variable).generation
    /\ UNCHANGED <<vars, branches>>

\* Branch entry whose snapshot is the generation a commit will produce
ExecBranchBegin_SnapshotAhead(variable) ==
    /\ Executed(Node("BranchBegin", variable, None))
    /\ stack' = Append(stack, BranchNew(variable, None, get_gen(World, variable) + 1))
    /\ UNCHANGED <<vars, generation, branches>>

\* main.rs:420-423: snapshot the generation, build b, enter the body
ExecBranchBegin(variable) ==
    /\ Executed(Node("BranchBegin", variable, None))
    /\ stack' = Append(stack, BranchNew(variable, None, get_gen(World, variable)))
    /\ UNCHANGED <<vars, generation, branches>>

\* main.rs:424, branches.drain().map(|(_, v)| v): the registered branches in
\* the order o in which the drain visits their keys
Drained(o) == [i \in 1..Len(o) |-> branches[o[i]]]

\* Branch end that copies the registered branches into b.nested and leaves
\* them registered
ExecBranchEnd_CopiesRegistry ==
    /\ stack # <<>>
    /\ LET b == stack[Len(stack)] IN
       /\ Executed(Node("BranchEnd", b.variable, None))
       /\ \E o \in KeyOrders(branches) :
            branches' = MapInsert(branches, b.variable,
                [b EXCEPT !.nested = b.nested \o Drained(o)])
       /\ stack' = SubSeq(stack, 1, Len(stack) - 1)
    /\ UNCHANGED <<vars, generation>>

\* Branch end that registers b and drains nothing
ExecBranchEnd_KeepsRegistry ==
    /\ stack # <<>>
    /\ LET b == stack[Len(stack)] IN
       /\ Executed(Node("BranchEnd", b.variable, None))
       /\ branches' = MapInsert(branches, b.variable, b)
       /\ stack' = SubSeq(stack, 1, Len(stack) - 1)
    /\ UNCHANGED <<vars, generation>>

\* main.rs:424-425: the body is done; drain the registry into b.nested, register b
ExecBranchEnd ==
    /\ stack # <<>>
    /\ LET b == stack[Len(stack)] IN
       /\ Executed(Node("BranchEnd", b.variable, None))
       /\ \E o \in KeyOrders(branches) :
            branches' = MapInsert(EmptyMap, b.variable,
                [b EXCEPT !.nested = b.nested \o Drained(o)])
       /\ stack' = SubSeq(stack, 1, Len(stack) - 1)
    /\ UNCHANGED <<vars, generation>>

\* Merge that merges a branch opened on the spot when none is registered
ExecMerge_OpensWhenMissing(variable) ==
    /\ Executed(Node("Merge", variable, None))
    /\ LET b == IF variable \in DOMAIN branches THEN branches[variable]
                ELSE BranchNew(variable, None, get_gen(World, variable))
           w == merge(b, World) IN
       /\ branches' = MapRemove(branches, variable)
       /\ vars' = w.vars
       /\ generation' = w.generation
    /\ UNCHANGED stack

\* main.rs:427-431
ExecMerge(variable) ==
    /\ Executed(Node("Merge", variable, None))
    /\ IF variable \in DOMAIN branches
       THEN LET w == merge(branches[variable], World) IN
            /\ branches' = MapRemove(branches, variable)
            /\ vars' = w.vars
            /\ generation' = w.generation
       ELSE UNCHANGED <<vars, generation, branches>>
    /\ UNCHANGED stack

\* main.rs:432-443: prints, changes nothing
ExecPrint(target) ==
    /\ Executed(Node("Print", target, None))
    /\ UNCHANGED <<vars, generation, branches, stack>>

IsSpace(c) == c \in {9, 10, 13, 32}

RECURSIVE TrimStart(_), TrimEnd(_)
TrimStart(s) == IF s # <<>> /\ IsSpace(Head(s)) THEN TrimStart(Tail(s)) ELSE s
TrimEnd(s) ==
    IF s # <<>> /\ IsSpace(s[Len(s)]) THEN TrimEnd(SubSeq(s, 1, Len(s) - 1)) ELSE s
\* str::trim
Trim(s) == TrimEnd(TrimStart(s))

\* main.rs:444-455: line is what read_line returns
ExecInput(variable, line) ==
    /\ Executed(Node("Input", variable, None))
    /\ vars' = MapInsert(vars, variable, VStr(Trim(line)))
    /\ UNCHANGED <<generation, branches, stack>>

\* ListPush that starts a list when the variable is unbound
ExecListPush_CreatesList(variable, value) ==
    /\ Executed(Node("ListPush", variable, Some(value)))
    /\ IF variable \in DOMAIN vars
       THEN IF vars[variable].tag = "List"
            THEN vars' = MapInsert(vars, variable,
                                   VList(Append(vars[variable].elems, value)))
            ELSE UNCHANGED vars
       ELSE vars' = MapInsert(vars, variable, VList(<<value>>))
    /\ UNCHANGED <<generation, branches, stack>>

\* main.rs:456-464
ExecListPush(variable, value) ==
    /\ Executed(Node("ListPush", variable, Some(value)))
    /\ IF variable \in DOMAIN vars /\ vars[variable].tag = "List"
       THEN vars' = MapInsert(vars, variable, VList(Append(vars[variable].elems, value)))
       ELSE UNCHANGED vars
    /\ UNCHANGED <<generation, branches, stack>>

\* main.rs:465-473: HashSet::insert keeps the set as it is when it holds the
\* value, and puts a new value anywhere in the iteration order
ExecSetInsert(variable, value) ==
    /\ Executed(Node("SetInsert", variable, Some(value)))
    /\ IF variable \in DOMAIN vars /\ vars[variable].tag = "Set"
       THEN LET s == vars[variable].elems IN
            IF SetContains(s, value)
            THEN vars' = MapInsert(vars, variable, VSet(s))
            ELSE \E p \in 1..(Len(s) + 1) :
                    vars' = MapInsert(vars, variable, VSet(InsertAt(s, p, value)))
       ELSE UNCHANGED vars
    /\ UNCHANGED <<generation, branches, stack>>

-----------------------------------------------------------------------------
(* main (main.rs:479-490): an empty World, an empty registry, then execute_ast *)
(* over a program; Spec draws the program node by node                         *)

LetValues == {VInt(1), VList(<<>>), VSet(<<>>)}
ElemValues == {VInt(1), VInt(2)}
Lines == {<<32, 97, 10>>}

InitExec(rec) ==
    /\ vars = EmptyMap
    /\ generation = EmptyMap
    /\ branches = EmptyMap
    /\ stack = <<>>
    /\ node = Start
    /\ prev = [vars |-> EmptyMap, generation |-> EmptyMap,
               branches |-> EmptyMap, stack |-> <<>>]
    /\ steps = 0
    /\ trace = <<>>
    /\ recording = rec
    /\ arg = BranchNew("", None, 0)
    /\ phase = "exec"
    /\ va = VInt(0) /\ vb = VInt(0) /\ ha = None /\ hb = None

Init == InitExec(FALSE)

Next ==
    \/ \E n \in Names, v \in LetValues : ExecLet(n, v)
    \/ \E n \in Names : ExecBranchBegin(n)
    \/ ExecBranchEnd
    \/ \E n \in Names : ExecMerge(n)
    \/ \E n \in Names : ExecPrint(n)
    \/ \E n \in Names, l \in Lines : ExecInput(n, l)
    \/ \E n \in Names, e \in ElemValues : ExecListPush(n, e)
    \/ \E n \in Names, e \in ElemValues : ExecSetInsert(n, e)

Spec == Init /\ [][Next]_all_vars

-----------------------------------------------------------------------------
(* execute_ast over the programs made of Let, Branch and Merge nodes, the *)
(* nodes executed being recorded in trace (SpecProg)                      *)

ProgLetNames == {"x"}
ProgLetValues == {VInt(1), VInt(2)}

InitProg == InitExec(TRUE)

NextProg ==
    \/ \E n \in ProgLetNames, v \in ProgLetValues : ExecLet(n, v)
    \/ \E n \in Names : ExecBranchBegin(n)
    \/ ExecBranchEnd
    \/ \E n \in Names : ExecMerge(n)

SpecProg == InitProg /\ [][NextProg]_all_vars

-----------------------------------------------------------------------------
(* Branch::merge called on any branch and any World (SpecMerge) *)

DeltaValues == {None, Some(VInt(7))}

RECURSIVE BranchesOfSize(_), ForestsOfSize(_)
\* the Branch trees of exactly k records
BranchesOfSize(k) ==
    {[variable |-> n, delta |-> d, generation |-> g, nested |-> f] :
        n \in Names, d \in DeltaValues, g \in 0..MaxGen, f \in ForestsOfSize(k - 1)}

\* the Vec<Branch> values of exactly k records in all
ForestsOfSize(k) ==
    IF k = 0 THEN {<<>>}
    ELSE UNION {{<<b>> \o f : b \in BranchesOfSize(j), f \in ForestsOfSize(k - j)} :
                    j \in 1..k}

BranchInputs == UNION {BranchesOfSize(k) : k \in 1..MaxBranchNodes}

\* the HashMaps from some of the names to a value of S
MapsTo(S) == UNION {[D -> S] : D \in SUBSET Names}

InitMerge ==
    /\ vars \in MapsTo({VInt(1)})
    /\ generation \in MapsTo(1..MaxGen)
    /\ arg \in BranchInputs
    /\ phase = "ready"
    /\ branches = EmptyMap
    /\ stack = <<>>
    /\ node = Start
    /\ prev = [vars |-> EmptyMap, generation |-> EmptyMap,
               branches |-> EmptyMap, stack |-> <<>>]
    /\ steps = 0
    /\ trace = <<>>
    /\ recording = FALSE
    /\ va = VInt(0) /\ vb = VInt(0) /\ ha = None /\ hb = None

\* arg.merge(&mut world)
CallMerge ==
    /\ phase = "ready"
    /\ phase' = "done"
    /\ prev' = Snapshot
    /\ LET w == merge(arg, World) IN
       /\ vars' = w.vars
       /\ generation' = w.generation
    /\ UNCHANGED <<branches, stack, node, steps, trace, recording, arg, va, vb, ha, hb>>

NextMerge == CallMerge

SpecMerge == InitMerge /\ [][NextMerge]_all_vars

\* the World Branch::merge or the last ASTNode started from
PrevWorld == [vars |-> prev.vars, generation |-> prev.generation]

\* the binding of a name, as World.vars.get gives it
Binding(w, n) == MapGet(w.vars, n)

-----------------------------------------------------------------------------
(* Claims about Branch::merge, checked under SpecMerge *)

Merged == phase = "done"

\* C1: a merge of a branch whose snapshot differs from the current generation
\* of its variable leaves vars and generation of every variable as they were,
\* whatever its delta and its nested branches are.
C1_StaleMergeIsNoOp ==
    (Merged /\ IsStale(arg, PrevWorld)) =>
        /\ vars = prev.vars
        /\ generation = prev.generation

\* a stale branch with a delta and a nested child that is itself fresh was merged
C1_Witness ==
    /\ Merged
    /\ IsStale(arg, PrevWorld)
    /\ arg.delta # None
    /\ arg.nested # <<>>
    /\ ~IsStale(arg.nested[1], PrevWorld)
    /\ arg.nested[1].variable # arg.variable

\* C2: a merge of a fresh branch without nested children advances the
\* generation of its variable by exactly one, binds the variable to the delta
\* when there is one and leaves the binding otherwise, and changes no other
\* variable's binding or generation.
C2_FreshMergeApplies ==
    (Merged /\ ~IsStale(arg, PrevWorld) /\ arg.nested = <<>>) =>
        /\ get_gen(World, arg.variable) = get_gen(PrevWorld, arg.variable) + 1
        /\ arg.delta # None => Binding(World, arg.variable) = arg.delta
        /\ arg.delta = None =>
              Binding(World, arg.variable) = Binding(PrevWorld, arg.variable)
        /\ \A n \in Names \ {arg.variable} :
              /\ Binding(World, n) = Binding(PrevWorld, n)
              /\ MapGet(generation, n) = MapGet(prev.generation, n)

\* a fresh childless branch with a delta was merged over a variable never
\* merged before, another variable being bound and merged before
C2_Witness ==
    /\ Merged
    /\ ~IsStale(arg, PrevWorld)
    /\ arg.nested = <<>>
    /\ arg.delta # None
    /\ arg.variable \notin DOMAIN prev.generation
    /\ Binding(World, arg.variable) = arg.delta
    /\ \E n \in Names \ {arg.variable} : n \in DOMAIN vars /\ n \in DOMAIN generation

\* a nested child of b that watches another variable than b and whose snapshot
\* is the generation of its variable in w
FreshChildren(b, w) ==
    {i \in 1..Len(b.nested) :
        /\ b.nested[i].variable # b.variable
        /\ ~IsStale(b.nested[i], w)}

\* C10 as claimed: when a stale parent is merged, each nested child on another
\* variable whose snapshot is current is merged (its generation advances by 1).
C10_ChildMergedUnderStaleParent ==
    (Merged /\ IsStale(arg, PrevWorld)) =>
        \A i \in FreshChildren(arg, PrevWorld) :
            get_gen(World, arg.nested[i].variable) =
                get_gen(PrevWorld, arg.nested[i].variable) + 1

\* C10 amended: a child is checked and merged only when its parent is fresh.
\* Under a stale parent no child is merged (no generation moves); under a fresh
\* parent the first child, when it watches another variable and its snapshot
\* is current, is merged (the generation of its variable advances, by 1 for
\* the child and by 1 more for each branch below that is then fresh).
C10_ChildMergedOnlyUnderFreshParent ==
    /\ (Merged /\ IsStale(arg, PrevWorld)) =>
          \A i \in 1..Len(arg.nested) :
              get_gen(World, arg.nested[i].variable) =
                  get_gen(PrevWorld, arg.nested[i].variable)
    /\ (Merged /\ ~IsStale(arg, PrevWorld) /\ 1 \in FreshChildren(arg, PrevWorld)) =>
          get_gen(World, arg.nested[1].variable) >
              get_gen(PrevWorld, arg.nested[1].variable)

\* a stale parent with a child on another variable whose snapshot is current
C10_Witness ==
    /\ Merged
    /\ IsStale(arg, PrevWorld)
    /\ FreshChildren(arg, PrevWorld) # {}
    /\ generation = prev.generation

-----------------------------------------------------------------------------
(* Claims about execute_ast over recorded programs, checked under SpecProg *)

BranchBeginNode(v) == Node("BranchBegin", v, None)
BranchEndNode(v) == Node("BranchEnd", v, None)
MergeNode(v) == Node("Merge", v, None)
LetNode(n, val) == Node("Let", n, Some(val))

\* the nodes executed before the last one
Before == SubSeq(trace, 1, Len(trace) - 1)

RECURSIVE Depth(_, _, _)
\* Branch nodes entered and not yet ended within tr[i..m]
Depth(tr, i, m) ==
    IF m < i THEN 0
    ELSE Depth(tr, i, m - 1)
         + (IF tr[m].op = "BranchBegin" THEN 1
            ELSE IF tr[m].op = "BranchEnd" THEN -1 ELSE 0)

\* tr[i] enters a Branch node and tr[l] is the end of its body
IsBranchStatement(tr, i, l) ==
    /\ i < l
    /\ tr[i].op = "BranchBegin"
    /\ tr[l].op = "BranchEnd"
    /\ Depth(tr, i, l) = 0
    /\ \A m \in i..(l - 1) : Depth(tr, i, m) > 0

\* a Branch statement on v has completed in tr, no Merge v was executed since
\* and no enclosing Branch body has ended since (which would have collected
\* the branch into the enclosing branch's nested list)
CompletedUnmerged(tr, v) ==
    \E l \in 1..Len(tr) :
        /\ tr[l] = BranchEndNode(v)
        /\ \A m \in (l + 1)..Len(tr) :
              /\ tr[m] # MergeNode(v)
              /\ Depth(tr, l + 1, m) >= 0

\* C3: when a Branch statement on v has completed and no Merge v was executed
\* since, the next Merge v finds a branch registered under v and merges it, also
\* when Branch statements on other variables were executed in between (after
\* branch x {} branch y {}, merge x takes the generation of x from 0 to 1).
C3_MergeFindsBranchByName ==
    (recording /\ node.op = "Merge" /\ CompletedUnmerged(Before, node.variable)) =>
        /\ node.variable \in DOMAIN prev.branches
        /\ World = merge(prev.branches[node.variable], PrevWorld)

\* the program of C4: let x = 1; branch x { let x = 2; } merge x;
ProgramC4 ==
    <<LetNode("x", VInt(1)), BranchBeginNode("x"), LetNode("x", VInt(2)),
      BranchEndNode("x"), MergeNode("x")>>

\* C4 as claimed: run from an empty World, x is bound to 1 just before the
\* Merge and to 2 after it, where the generation of x is 1.
C4_LetInBodyVisibleAtMerge ==
    trace = ProgramC4 =>
        /\ Binding(PrevWorld, "x") = Some(VInt(1))
        /\ Binding(World, "x") = Some(VInt(2))
        /\ get_gen(World, "x") = 1

\* C4 amended: x is bound to 1 until the Let of the body executes and to 2
\* from then on, so already just before the Merge; the Merge leaves the
\* binding at 2 and takes the generation of x from 0 to 1.
C4_LetInBodyCommitsAtOnce ==
    /\ trace = SubSeq(ProgramC4, 1, 2) => Binding(World, "x") = Some(VInt(1))
    /\ trace = SubSeq(ProgramC4, 1, 3) => Binding(World, "x") = Some(VInt(2))
    /\ trace = ProgramC4 =>
          /\ Binding(PrevWorld, "x") = Some(VInt(2))
          /\ get_gen(PrevWorld, "x") = 0
          /\ Binding(World, "x") = Some(VInt(2))
          /\ get_gen(World, "x") = 1

\* the program of C4 has run to its end
C4_Witness ==
    /\ trace = ProgramC4
    /\ node = MergeNode("x")
    /\ stack = <<>>
    /\ branches = EmptyMap

\* C5: branch A on x is the Branch statement just completed, branch B on
\* another variable y is a Branch statement of A's body, and no Merge was
\* executed since A was opened (so B is not merged and no generation has
\* moved); then Merge x advances the generations of x and of y by exactly 1
\* each.
C5_NestedBranchComposition ==
    (recording /\ node.op = "Merge") =>
        \A i, j, k \in 1..Len(Before) :
            LET l == Len(Before)
                x == node.variable
                y == Before[j].variable
            IN  ( /\ Before[i] = BranchBeginNode(x)
                  /\ IsBranchStatement(Before, i, l)
                  /\ i < j /\ j < k /\ k < l
                  /\ IsBranchStatement(Before, j, k)
                  /\ Depth(Before, i, j - 1) = 1
                  /\ y # x
                  /\ \A m \in i..l : Before[m].op # "Merge" )
                => /\ get_gen(World, x) = get_gen(PrevWorld, x) + 1
                   /\ get_gen(World, y) = get_gen(PrevWorld, y) + 1

\* where the Branch statement that ends with the last node of tr begins
OpenedAt(tr) == {i \in 1..Len(tr) : IsBranchStatement(tr, i, Len(tr))}

\* the Branch statements <<j, k>> of the body of the Branch statement tr[i..l]
\* itself, not of a body nested in it
ChildStatements(tr, i, l) ==
    {p \in ((i + 1)..(l - 1)) \X ((i + 1)..(l - 1)) :
        /\ IsBranchStatement(tr, p[1], p[2])
        /\ Depth(tr, i, p[1] - 1) = 1}

\* no Merge node in tr[i..l]
NoMerge(tr, i, l) == \A m \in i..l : tr[m].op # "Merge"

\* C11: the Branch statement on x has just completed, its body opened a branch
\* on a and after it a branch on another variable b and executed no Merge (so
\* each snapshot is still the generation of its variable); then Merge x
\* advances by 1 the generation of each of a and b that is not x itself,
\* whatever the stale check says of the other branch.
C11_SiblingsMergeIndependently ==
    (recording /\ node.op = "Merge") =>
        \A i \in OpenedAt(Before) :
            LET l == Len(Before)
                x == node.variable
            IN  (Before[i] = BranchBeginNode(x) /\ NoMerge(Before, i, l)) =>
                    \A p, q \in ChildStatements(Before, i, l) :
                        LET a == Before[p[1]].variable
                            b == Before[q[1]].variable
                        IN  (p[2] < q[1] /\ a # b) =>
                                \A c \in {a, b} \ {x} :
                                    get_gen(World, c) = get_gen(PrevWorld, c) + 1

RECURSIVE Checked(_, _), CheckedNested(_, _)
\* the variables of the branches whose stale check b.merge(w) evaluates, in
\* the order in which it evaluates them
Checked(b, w) ==
    <<b.variable>>
    \o (IF IsStale(b, w) THEN <<>>
        ELSE CheckedNested(b.nested, inc_gen(ApplyDelta(b, w), b.variable)))

CheckedNested(nested, w) ==
    IF nested = <<>> THEN <<>>
    ELSE Checked(Head(nested), w) \o CheckedNested(Tail(nested), merge(Head(nested), w))

\* C12: the Branch statement on x has just completed and its body is nothing
\* but Branch statements with empty bodies, on pairwise different variables;
\* then Merge x runs the stale check of a branch opened earlier before that of
\* a branch opened later, whenever it runs both.
C12_MergeOrderIsOpeningOrder ==
    (recording /\ node.op = "Merge") =>
        \A i \in OpenedAt(Before) :
            LET l == Len(Before)
                x == node.variable
                ch == ChildStatements(Before, i, l)
                order == Tail(Checked(prev.branches[x], PrevWorld))
            IN  ( /\ Before[i] = BranchBeginNode(x)
                  /\ 2 * Cardinality(ch) = l - i - 1
                  /\ \A p, q \in ch :
                        /\ p[2] = p[1] + 1
                        /\ Before[p[1]].variable = Before[q[1]].variable => p = q )
                => \A p, q \in ch :
                       p[1] < q[1] =>
                           \A m, n \in 1..Len(order) :
                               ( /\ order[m] = Before[p[1]].variable
                                 /\ order[n] = Before[q[1]].variable ) => m < n

\* C13: a Branch statement with an empty body builds a branch with no nested
\* child, whatever was registered before it began; a variable whose Branch
\* statements are all at top level and which no Merge names keeps generation
\* 0; and a Merge x right after the Branch statement on x changes the
\* generation of x and of variables of Branch statements of its body only.
C13_OnlyBodyBranchesAreChildren ==
    recording =>
        /\ (node.op = "BranchEnd" /\ Before # <<>>
                /\ Before[Len(Before)].op = "BranchBegin")
              => branches[node.variable].nested = <<>>
        /\ \A y \in Names :
              ( \A m \in 1..Len(trace) :
                    /\ trace[m] # MergeNode(y)
                    /\ trace[m] = BranchBeginNode(y) => Depth(trace, 1, m - 1) = 0 )
              => get_gen(World, y) = 0
        /\ node.op = "Merge" =>
              \A i \in OpenedAt(Before) :
                  Before[i] = BranchBeginNode(node.variable) =>
                      \A n \in Names :
                          get_gen(World, n) # get_gen(PrevWorld, n) =>
                              \/ n = node.variable
                              \/ \E m \in (i + 1)..(Len(Before) - 1) :
                                     Before[m] = BranchBeginNode(n)

\* tr[i..l] is a Branch statement on v and no enclosing Branch body has ended
\* after it
CompletedAt(tr, v, i, l) ==
    /\ tr[i] = BranchBeginNode(v)
    /\ IsBranchStatement(tr, i, l)
    /\ \A m \in (l + 1)..Len(tr) : Depth(tr, l + 1, m) >= 0

\* the Branch statements on v completed in tr at the nesting level of its end
CompletedStatements(tr, v) ==
    {p \in (1..Len(tr)) \X (1..Len(tr)) : CompletedAt(tr, v, p[1], p[2])}

\* a first and then a second Branch statement on the variable of the Merge now
\* executed have completed, at the nesting level of that Merge, and no Merge
\* was executed since the first began
Replaced(f, s) ==
    /\ f[2] < s[1]
    /\ NoMerge(Before, f[1], Len(Before))

\* a variable no Branch statement names outside the body of tr[i..l]
OpenedOnlyIn(tr, w, i, l) ==
    \A m \in 1..Len(tr) :
        tr[m] = BranchBeginNode(w) => (i < m /\ m < l)

\* C14 (the first branch never takes effect): when a second Branch statement
\* on v has replaced a first one, Merge v advances the generation of v by 1 at
\* most and leaves the generation of a variable whose branches were all opened
\* inside the first one's body.
C14_ReplacedBranchNeverTakesEffect ==
    (recording /\ node.op = "Merge") =>
        LET v == node.variable
        IN  \A f, s \in CompletedStatements(Before, v) :
                Replaced(f, s) =>
                    /\ get_gen(World, v) <= get_gen(PrevWorld, v) + 1
                    /\ \A w \in Names \ {v} :
                          OpenedOnlyIn(Before, w, f[1], f[2]) =>
                              get_gen(World, w) = get_gen(PrevWorld, w)

\* C14: when a second Branch statement on v has replaced a first one, the
\* next Merge v commits the second branch: it takes the generation of v up by
\* exactly 1, and the first branch never takes effect.
C14_LastWriteWins ==
    (recording /\ node.op = "Merge") =>
        LET v == node.variable
        IN  \A f, s \in CompletedStatements(Before, v) :
                Replaced(f, s) =>
                    /\ get_gen(World, v) = get_gen(PrevWorld, v) + 1
                    /\ \A w \in Names \ {v} :
                          OpenedOnlyIn(Before, w, f[1], f[2]) =>
                              get_gen(World, w) = get_gen(PrevWorld, w)

-----------------------------------------------------------------------------
(* Claims about execute_ast over all nodes, checked under Spec *)

Elems(s) == {s[i] : i \in 1..Len(s)}

OthersUntouched(n) ==
    /\ \A m \in Names \ {n} : Binding(World, m) = Binding(PrevWorld, m)
    /\ generation = prev.generation
    /\ branches = prev.branches
    /\ stack = prev.stack

\* C6: a Merge of a name with no registered branch leaves vars, every
\* generation and the registry as they were (and the open Branch arms too).
C6_MergeOfUnregisteredIsNoOp ==
    (node.op = "Merge" /\ node.variable \notin DOMAIN prev.branches) =>
        /\ vars = prev.vars
        /\ generation = prev.generation
        /\ branches = prev.branches
        /\ stack = prev.stack

\* a Merge found no branch under its name while another name had a branch
\* registered and a variable was bound
C6_Witness ==
    /\ node.op = "Merge"
    /\ node.variable \notin DOMAIN prev.branches
    /\ prev.branches # EmptyMap
    /\ prev.vars # EmptyMap

\* C7: ListPush v e on a v bound to a List binds v to the old list with e
\* appended; SetInsert v e on a v bound to a Set binds v to the old set with e
\* added; on an unbound v or a v of another variant the World is unchanged; no
\* other binding and no generation changes.
C7_PushAndInsert ==
    /\ node.op = "ListPush" =>
          LET n == node.variable
              e == node.value[1]
          IN  /\ IF n \in DOMAIN prev.vars /\ prev.vars[n].tag = "List"
                 THEN Binding(World, n) =
                          Some(VList(Append(prev.vars[n].elems, e)))
                 ELSE vars = prev.vars
              /\ OthersUntouched(n)
    /\ node.op = "SetInsert" =>
          LET n == node.variable
              e == node.value[1]
          IN  /\ IF n \in DOMAIN prev.vars /\ prev.vars[n].tag = "Set"
                 THEN /\ n \in DOMAIN vars
                      /\ vars[n].tag = "Set"
                      /\ Elems(vars[n].elems) = Elems(prev.vars[n].elems) \cup {e}
                      /\ Cardinality(Elems(vars[n].elems)) = Len(vars[n].elems)
                 ELSE vars = prev.vars
              /\ OthersUntouched(n)

\* a ListPush made a list of two elements while the other variable holds a
\* set an insert has filled
C7_Witness ==
    /\ node.op = "ListPush"
    /\ node.variable \in DOMAIN vars
    /\ vars[node.variable].tag = "List"
    /\ Len(vars[node.variable].elems) = 2
    /\ \E m \in Names \ {node.variable} :
          /\ m \in DOMAIN vars
          /\ vars[m].tag = "Set"
          /\ vars[m].elems # <<>>

\* C8: a Let writes the World at once at any nesting depth and changes no
\* generation; entering and leaving a Branch body keeps every binding, so the
\* body and the enclosing scope see the same World; a stale Merge and a Merge
\* that finds no branch keep every binding.
C8_LetCommitsDirectly ==
    /\ node.op = "Let" =>
          /\ vars = MapInsert(prev.vars, node.variable, node.value[1])
          /\ generation = prev.generation
          /\ branches = prev.branches
          /\ stack = prev.stack
    /\ node.op \in {"BranchBegin", "BranchEnd"} => vars = prev.vars
    /\ ( /\ node.op = "Merge"
         /\ \/ node.variable \notin DOMAIN prev.branches
            \/ IsStale(prev.branches[node.variable], PrevWorld) )
       => vars = prev.vars

\* a Let executed inside the bodies of two open branches, one of them on the
\* variable it writes
C8_Witness ==
    /\ node.op = "Let"
    /\ Len(stack) >= 2
    /\ \E i \in 1..Len(stack) : stack[i].variable = node.variable
    /\ vars[node.variable] = node.value[1]

\* a stale Merge was executed after a Let
C8_StaleMergeReached ==
    /\ node.op = "Merge"
    /\ node.variable \in DOMAIN prev.branches
    /\ IsStale(prev.branches[node.variable], PrevWorld)
    /\ vars # EmptyMap

\* C15: no node takes a generation down, and only a Merge changes one: Let,
\* ListPush, SetInsert, Input, Print, and the entry and the end of a Branch
\* body leave the generation map as it was.
C15_GenerationsOnlyGrowAtMerge ==
    /\ \A n \in Names : get_gen(World, n) >= get_gen(PrevWorld, n)
    /\ DOMAIN prev.generation \subseteq DOMAIN generation
    /\ node.op # "Merge" => generation = prev.generation

\* a Merge took a generation from 1 to 2 in a World with a binding
C15_Witness ==
    /\ node.op = "Merge"
    /\ get_gen(PrevWorld, node.variable) = 1
    /\ get_gen(World, node.variable) = 2
    /\ vars # EmptyMap

\* the sequences that hold the elements of s, each once, in some order
Orderings(s) ==
    {[i \in 1..Len(s) |-> s[o[i]]] :
        o \in {f \in [1..Len(s) -> 1..Len(s)] :
                  \A i, j \in 1..Len(s) : f[i] = f[j] => i = j}}

\* C16: in every state the choices the program does not control cannot change
\* the World: whatever order the drain at the end of a Branch body visits the
\* registry in, it yields the same nested list; whatever order the nested
\* children of a registered branch are merged in, the merge yields the same
\* World; and wherever a HashSet puts a new element, the Set is the same Value.
C16_Deterministic ==
    /\ \A o1, o2 \in KeyOrders(branches) : Drained(o1) = Drained(o2)
    /\ \A n \in DOMAIN branches :
          \A c \in Orderings(branches[n].nested) :
              merge([branches[n] EXCEPT !.nested = c], World) = merge(branches[n], World)
    /\ \A n \in DOMAIN vars :
          vars[n].tag = "Set" =>
              \A e \in ElemValues :
                  \A p, q \in 1..(Len(vars[n].elems) + 1) :
                      ValueEq(VSet(InsertAt(vars[n].elems, p, e)),
                              VSet(InsertAt(vars[n].elems, q, e)))

\* a Merge committed a branch and the nested child a drain had given it, in a
\* World that binds a Set of one element
C16_Witness ==
    /\ node.op = "Merge"
    /\ node.variable \in DOMAIN prev.branches
    /\ prev.branches[node.variable].nested # <<>>
    /\ \E n \in Names \ {node.variable} :
          get_gen(World, n) = get_gen(PrevWorld, n) + 1
    /\ \E n \in DOMAIN vars : vars[n].tag = "Set" /\ Len(vars[n].elems) = 1

RECURSIVE IsChain(_)
\* b and every branch under it has one nested child at most
IsChain(b) ==
    /\ Len(b.nested) <= 1
    /\ \A i \in 1..Len(b.nested) : IsChain(b.nested[i])

RECURSIVE ChainLen(_)
\* the branches of a chain
ChainLen(b) == IF b.nested = <<>> THEN 1 ELSE 1 + ChainLen(b.nested[1])

\* C17: the registry holds one branch at most after every node; the end of a
\* Branch body leaves exactly one registered branch, the one just built (b of
\* the Branch arm, with what was registered as its nested list); and every
\* branch, registered or being built, has one nested child at most at every
\* level, so that all branches alive form one chain.
C17_RegistryIsOneChain ==
    /\ Cardinality(DOMAIN branches) <= 1
    /\ node.op = "BranchEnd" =>
          LET b == prev.stack[Len(prev.stack)]
          IN  /\ DOMAIN branches = {node.variable}
              /\ branches[node.variable].variable = b.variable
              /\ branches[node.variable].generation = b.generation
              /\ branches[node.variable].delta = b.delta
              /\ \A n \in DOMAIN prev.branches :
                    branches[node.variable].nested = <<prev.branches[n]>>
              /\ prev.branches = EmptyMap => branches[node.variable].nested = <<>>
    /\ \A n \in DOMAIN branches : IsChain(branches[n])
    /\ \A i \in 1..Len(stack) : stack[i].nested = <<>>

\* the end of a Branch body registered a chain of three branches while
\* another Branch body is open
C17_Witness ==
    /\ node.op = "BranchEnd"
    /\ ChainLen(branches[node.variable]) = 3
    /\ stack # <<>>

RECURSIVE NoDelta(_)
\* b and every branch under it has delta None
NoDelta(b) ==
    /\ b.delta = None
    /\ \A i \in 1..Len(b.nested) : NoDelta(b.nested[i])

\* C18: every branch, registered or being built, has delta None at every
\* level, so that a Merge leaves vars as they were; vars change only across a
\* Let, Input, ListPush or SetInsert node.
C18_MergeChangesNoBinding ==
    /\ \A n \in DOMAIN branches : NoDelta(branches[n])
    /\ \A i \in 1..Len(stack) : NoDelta(stack[i])
    /\ node.op \notin {"Let", "Input", "ListPush", "SetInsert"} => vars = prev.vars

\* a Merge committed a branch on a bound variable and its nested child on the
\* other variable
C18_Witness ==
    /\ node.op = "Merge"
    /\ node.variable \in DOMAIN prev.branches
    /\ node.variable \in DOMAIN vars
    /\ prev.branches[node.variable].nested # <<>>
    /\ \A n \in Names : get_gen(World, n) = get_gen(PrevWorld, n) + 1

RECURSIVE SnapshotsBehind(_, _)
\* the snapshot of b and of every branch under it is at most the generation
\* its variable has in w
SnapshotsBehind(b, w) ==
    /\ b.generation <= get_gen(w, b.variable)
    /\ \A i \in 1..Len(b.nested) : SnapshotsBehind(b.nested[i], w)

\* C19: the snapshot of every branch, registered or being built, at every
\* level, is at most the current generation of its variable; and a Merge
\* advances the generation of each variable by 1 at most.
C19_SnapshotNeverAhead ==
    /\ \A n \in DOMAIN branches : SnapshotsBehind(branches[n], World)
    /\ \A i \in 1..Len(stack) : SnapshotsBehind(stack[i], World)
    /\ node.op = "Merge" =>
          \A n \in Names : get_gen(World, n) <= get_gen(PrevWorld, n) + 1

\* a Merge committed a branch that held two more branches on the same
\* variable, all with the snapshot the variable's generation then equalled,
\* and the generation went up by 1
C19_Witness ==
    /\ node.op = "Merge"
    /\ node.variable \in DOMAIN prev.branches
    /\ LET b == prev.branches[node.variable]
       IN  /\ ChainLen(b) = 3
           /\ b.nested[1].variable = b.variable
           /\ b.nested[1].nested[1].variable = b.variable
           /\ b.nested[1].generation = b.generation
           /\ b.nested[1].nested[1].generation = b.generation
           /\ ~IsStale(b, PrevWorld)
    /\ get_gen(World, node.variable) = get_gen(PrevWorld, node.variable) + 1

-----------------------------------------------------------------------------
(* Two Values compared and hashed (SpecValue) *)

Atoms == {VInt(1), VInt(-2), VBool(TRUE), VStr(<<97>>)}

\* no two elements equal: what a HashSet can hold
Distinct(s) == \A i, j \in 1..Len(s) : ValueEq(s[i], s[j]) => i = j

RECURSIVE ValuesOfSize(_), ElemSeqsOfSize(_)
\* the Values of exactly k records
ValuesOfSize(k) ==
    IF k = 1 THEN Atoms \cup {VList(<<>>), VSet(<<>>)}
    ELSE {VList(s) : s \in ElemSeqsOfSize(k - 1)}
         \cup {VSet(s) : s \in {q \in ElemSeqsOfSize(k - 1) : Distinct(q)}}

\* the sequences of Values of exactly k records in all
ElemSeqsOfSize(k) ==
    IF k = 0 THEN {<<>>}
    ELSE UNION {{<<e>> \o s : e \in ValuesOfSize(j), s \in ElemSeqsOfSize(k - j)} :
                    j \in 1..k}

ValueInputs == UNION {ValuesOfSize(k) : k \in 1..MaxValueSize}

InitValue ==
    /\ va \in ValueInputs
    /\ vb \in ValueInputs
    /\ ha = None
    /\ hb = None
    /\ phase = "values"
    /\ vars = EmptyMap
    /\ generation = EmptyMap
    /\ branches = EmptyMap
    /\ stack = <<>>
    /\ node = Start
    /\ prev = [vars |-> EmptyMap, generation |-> EmptyMap,
               branches |-> EmptyMap, stack |-> <<>>]
    /\ steps = 0
    /\ trace = <<>>
    /\ recording = FALSE
    /\ arg = BranchNew("", None, 0)

\* both values hashed, each with a fresh DefaultHasher
HashValues ==
    /\ phase = "values"
    /\ phase' = "hashed"
    /\ ha' = Some(Hash(va))
    /\ hb' = Some(Hash(vb))
    /\ UNCHANGED <<vars, generation, branches, stack, node, prev, steps, trace,
                   recording, arg, va, vb>>

NextValue == HashValues

SpecValue == InitValue /\ [][NextValue]_all_vars

\* b holds the elements of a, in any order
Rearranged(a, b) ==
    /\ Len(a) = Len(b)
    /\ \E f \in [1..Len(a) -> 1..Len(a)] :
          /\ \A i, j \in 1..Len(a) : f[i] = f[j] => i = j
          /\ \A i \in 1..Len(a) : b[i] = a[f[i]]

\* C9: equal Values hash equally; two Sets holding the same elements in
\* different iteration orders are equal and hash equally; two Lists that
\* differ at some place are not equal, also when they hold the same elements.
C9_EqualValuesHashEqual ==
    phase = "hashed" =>
        /\ ValueEq(va, vb) => ha = hb
        /\ (va.tag = "Set" /\ vb.tag = "Set" /\ Rearranged(va.elems, vb.elems)) =>
              (ValueEq(va, vb) /\ ha = hb)
        /\ ( /\ va.tag = "List" /\ vb.tag = "List"
             /\ Rearranged(va.elems, vb.elems)
             /\ \E i \in 1..Len(va.elems) : ~ValueEq(va.elems[i], vb.elems[i]) )
           => ~ValueEq(va, vb)

\* two Sets of the same two elements in different iteration orders were hashed
C9_Witness ==
    /\ phase = "hashed"
    /\ va.tag = "Set" /\ vb.tag = "Set"
    /\ Len(va.elems) = 2
    /\ va.elems # vb.elems
    /\ Rearranged(va.elems, vb.elems)
    /\ ValueEq(va, vb)
    /\ ha = hb

====
